---------------------------- MODULE Spec2Model ----------------------------
(***************************************************************************)
(* Model of the screenshot stitcher: ImageStitcher (image_stitcher.py) and *)
(* the command-line main (screenshot_ocr.py).                              *)
(*                                                                         *)
(* An image is a record [w, rows]: its width and the sequence of its rows, *)
(* top row first.  Every row is uniform (all its pixels carry the same     *)
(* grey intensity), so a row is one intensity.  On such images a           *)
(* horizontal cv2.resize changes the width only, cv2.cvtColor keeps the    *)
(* intensity, and the 2-D normalised correlation coefficient of            *)
(* cv2.matchTemplate equals the 1-D one over the rows (the width cancels). *)
(* Correlations are kept exact, as a numerator n and a squared             *)
(* denominator d (value n / sqrt(d)); thresholds are in percent.           *)
(***************************************************************************)
EXTENDS Integers, Sequences, FiniteSets, TLC

\* ------------------------------------------------------------------------
\* Bounds of the model and constants of the program

MaxPaths == 3

MaxSmallH == 3

SweepStep == 10

SearchMargin == 100

DefaultSearchRegion == 50

Widths == {2, 3}

Thresholds == {0, 50, 80, 100}

\* Values of the search_region argument, in percent
SearchRegions == {0, 25, 50, 100}

\* ------------------------------------------------------------------------
\* Values

\* Python's None, for an image (cv2.imread failed) and for an offset.
None == [w |-> 0, rows |-> << >>]

NoOffset == -1

\* What np.vstack raises on when the widths differ.
StackError == [w |-> -1, rows |-> << >>]

Min(a, b) == IF a < b THEN a ELSE b

Max(a, b) == IF a > b THEN a ELSE b

height(img) == Len(img.rows)

width(img) == img.w

\* ------------------------------------------------------------------------
\* cv2.matchTemplate(search, templ, TM_CCOEFF_NORMED) and cv2.minMaxLoc

RECURSIVE SumSeq(_)
SumSeq(s) == IF s = << >> THEN 0 ELSE Head(s) + SumSeq(Tail(s))

RECURSIVE Dot(_, _)
Dot(a, b) == IF a = << >> THEN 0 ELSE Head(a) * Head(b) + Dot(Tail(a), Tail(b))

One == [n |-> 1, d |-> 1]

Zero == [n |-> 0, d |-> 1]

\* sign(c) * c^2 scaled by the other value's denominator orders two
\* correlations without a square root.
SgnSq(c) == IF c.n >= 0 THEN c.n * c.n ELSE -(c.n * c.n)

Gt(a, b) == SgnSq(a) * b.d > SgnSq(b) * a.d

\* a >= t / 100, for a threshold t >= 0 in percent
GeqPct(a, t) == a.n >= 0 /\ 10000 * a.n * a.n >= t * t * a.d

\* The correlation coefficient of the template with the window of the
\* search area that starts y rows down (varT > 0).  A window without
\* variance scores 0.
CorrAt(templ, search, y) ==
    LET s    == Len(templ)
        win  == SubSeq(search, y + 1, y + s)
        num  == s * Dot(templ, win) - SumSeq(templ) * SumSeq(win)
        varT == s * Dot(templ, templ) - SumSeq(templ) * SumSeq(templ)
        varW == s * Dot(win, win) - SumSeq(win) * SumSeq(win)
    IN  IF varW = 0 THEN Zero ELSE [n |-> num, d |-> varT * varW]

\* The result map, one score per vertical position.  A template without
\* variance scores 1 everywhere.
matchTemplate(search, templ) ==
    LET s    == Len(templ)
        varT == s * Dot(templ, templ) - SumSeq(templ) * SumSeq(templ)
    IN  [p \in 1..(Len(search) - s + 1) |->
            IF varT = 0 THEN One ELSE CorrAt(templ, search, p - 1)]

RECURSIVE MaxFrom(_, _, _)
MaxFrom(res, p, best) ==
    IF p > Len(res) THEN best
    ELSE MaxFrom(res, p + 1,
                 IF Gt(res[p], best.max_val)
                 THEN [max_val |-> res[p], max_loc |-> p - 1] ELSE best)

minMaxLoc(res) == MaxFrom(res, 2, [max_val |-> res[1], max_loc |-> 0])

\* ------------------------------------------------------------------------
\* ImageStitcher.find_overlap

resize(img, newW) == [img EXCEPT !.w = newW]

min_overlap(img1, img2) == Min(height(img1), height(img2)) \div 10

max_overlap(img1, img2) == (9 * Min(height(img1), height(img2))) \div 10

\* A sweep whose range includes its lower end.
RECURSIVE RangeDownInclusive(_, _)
RangeDownInclusive(from, to) ==
    IF from < to THEN << >> ELSE <<from>> \o RangeDownInclusive(from - SweepStep, to)

\* range(max_overlap, min_overlap, -10)
RECURSIVE RangeDown(_, _)
RangeDown(from, to) ==
    IF from <= to THEN << >> ELSE <<from>> \o RangeDown(from - SweepStep, to)

Candidates(img1, img2) == RangeDown(max_overlap(img1, img2), min_overlap(img1, img2))

\* The score of one candidate overlap size: the max_val of its match, or
\* NoScore when the candidate is skipped.
NoScore == [n |-> -2, d |-> 1]

CandidateScore(img1, img2, overlap_size) ==
    LET h1 == height(img1)
        h2 == height(img2)
        templ  == SubSeq(img1.rows, h1 - overlap_size + 1, h1)
        search == SubSeq(img2.rows, 1, Min(overlap_size + SearchMargin, h2))
    IN  IF Len(templ) > Len(search) THEN NoScore
        ELSE minMaxLoc(matchTemplate(search, templ)).max_val

\* A loop body that keeps the best score whatever the threshold.
SweepBodyNoThreshold(img1, img2, threshold, overlap_size, best) ==
    LET c == CandidateScore(img1, img2, overlap_size)
    IN  IF c # NoScore /\ Gt(c, best.best_match_score)
        THEN [best_match_score |-> c, best_offset |-> height(img1) - overlap_size]
        ELSE best

\* A loop body in which a later candidate with an equal score takes over.
SweepBodyLastTie(img1, img2, threshold, overlap_size, best) ==
    LET c == CandidateScore(img1, img2, overlap_size)
    IN  IF c # NoScore /\ ~Gt(best.best_match_score, c) /\ Gt(c, Zero)
           /\ GeqPct(c, threshold)
        THEN [best_match_score |-> c, best_offset |-> height(img1) - overlap_size]
        ELSE best

\* A loop body that measures the offset in the lower image.
SweepBodyLowerHeight(img1, img2, threshold, overlap_size, best) ==
    LET c == CandidateScore(img1, img2, overlap_size)
    IN  IF c # NoScore /\ Gt(c, best.best_match_score) /\ GeqPct(c, threshold)
        THEN [best_match_score |-> c, best_offset |-> height(img2) - overlap_size]
        ELSE best

\* A loop body that keeps the first candidate that reaches the threshold.
SweepBodyFirstAccepted(img1, img2, threshold, overlap_size, best) ==
    LET c == CandidateScore(img1, img2, overlap_size)
    IN  IF c # NoScore /\ best.best_offset = NoOffset /\ Gt(c, Zero)
           /\ GeqPct(c, threshold)
        THEN [best_match_score |-> c, best_offset |-> height(img1) - overlap_size]
        ELSE best

\* One pass of the loop body for overlap_size; best is
\* [best_match_score, best_offset].
SweepBody(img1, img2, threshold, overlap_size, best) ==
    LET h1 == height(img1)
        h2 == height(img2)
        w1 == width(img1)
        w2 == width(img2)
        template0 == [w |-> w1, rows |-> SubSeq(img1.rows, h1 - overlap_size + 1, h1)]
        search0   == [w |-> w2,
                      rows |-> SubSeq(img2.rows, 1, Min(overlap_size + SearchMargin, h2))]
        template  == IF w1 < w2 THEN resize(template0, w2) ELSE template0
        search_area == IF w1 > w2 THEN resize(search0, w1) ELSE search0
    IN  IF height(template) > height(search_area) THEN best
        ELSE LET mm == minMaxLoc(matchTemplate(search_area.rows, template.rows))
             IN  IF Gt(mm.max_val, best.best_match_score)
                    /\ GeqPct(mm.max_val, threshold)
                 THEN [best_match_score |-> mm.max_val,
                       best_offset |-> h1 - overlap_size]
                 ELSE best

RECURSIVE Sweep(_, _, _, _, _)
Sweep(img1, img2, threshold, cands, best) ==
    IF cands = << >> THEN best
    ELSE Sweep(img1, img2, threshold, Tail(cands),
               SweepBody(img1, img2, threshold, Head(cands), best))

\* A search that only tries templates inside the search region.
FindBestInRegion(img1, img2, search_region, threshold) ==
    LET h1 == height(img1)
        search_height == (h1 * search_region) \div 100
        search_start  == h1 - search_height
    IN  Sweep(img1, img2, threshold,
              SelectSeq(Candidates(img1, img2), LAMBDA c : h1 - c >= search_start),
              [best_match_score |-> Zero, best_offset |-> NoOffset])

\* The whole search: the best score and offset after the loop.
FindBest(img1, img2, search_region, threshold) ==
    LET h1 == height(img1)
        search_height == (h1 * search_region) \div 100
        search_start  == h1 - search_height
    IN  Sweep(img1, img2, threshold, Candidates(img1, img2),
              [best_match_score |-> Zero, best_offset |-> NoOffset])

find_overlap(img1, img2, search_region, threshold) ==
    FindBest(img1, img2, search_region, threshold).best_offset

\* ------------------------------------------------------------------------
\* ImageStitcher.stitch_two_images

vstack(a, b) ==
    IF a.w = b.w THEN [w |-> a.w, rows |-> a.rows \o b.rows] ELSE StackError

\* A stitcher that forgets to widen the narrower image.
MatchWidthNoResize(img, other) == img

\* Both branches normalise the widths the same way.
MatchWidth(img, other) ==
    IF width(img) < Max(width(img), width(other))
    THEN resize(img, Max(width(img), width(other))) ELSE img

\* A stitcher that cuts the overlap out of both images.
stitch_two_images_cut_both(img1, img2, threshold) ==
    LET overlap_offset == find_overlap(img1, img2, DefaultSearchRegion, threshold)
        a == MatchWidth(img1, img2)
        b == MatchWidth(img2, img1)
        overlap_height == height(img1) - overlap_offset
    IN  IF overlap_offset = NoOffset
        THEN vstack(a, b)
        ELSE vstack([a EXCEPT !.rows = SubSeq(a.rows, 1, overlap_offset)],
                    [b EXCEPT !.rows = SubSeq(b.rows, overlap_height + 1, height(b))])

stitch_two_images(img1, img2, threshold) ==
    LET overlap_offset == find_overlap(img1, img2, DefaultSearchRegion, threshold)
        a == MatchWidth(img1, img2)
        b == MatchWidth(img2, img1)
    IN  IF overlap_offset = NoOffset
        THEN vstack(a, b)
        ELSE vstack([a EXCEPT !.rows = SubSeq(a.rows, 1, overlap_offset)], b)

\* ------------------------------------------------------------------------
\* Inputs

\* A page that is scrolled through; a screenshot is a window of it.
Doc == <<1, 0, 0, 1, 1, 1, 0, 1, 0, 0, 0, 1, 1, 0, 1, 1, 1, 1, 0, 0,
         1, 0, 1, 0, 0, 1, 1, 0, 0, 0, 1, 0>>

Window(start, h) == SubSeq(Doc, start + 1, start + h)

NamedRows ==
    { Window(0, 13), Window(0, 14), Window(2, 14), Window(9, 14), Window(13, 14),
      Window(0, 20), Window(2, 20), Window(5, 20), Window(12, 20),
      <<1, 0, 0, 1, 1>>, <<0, 1, 1, 0, 0>> }

SmallRows == UNION { [1..h -> {0, 1}] : h \in 1..MaxSmallH }

PairImages == { [w |-> w, rows |-> r] : w \in Widths, r \in SmallRows \cup NamedRows }

PipelineImages ==
    { [w |-> 2, rows |-> Window(0, 14)], [w |-> 3, rows |-> Window(2, 14)],
      [w |-> 2, rows |-> Window(9, 14)], [w |-> 3, rows |-> <<1>>] }

\* A path names nothing, a directory, a file that does not decode, or an image.
PathKinds ==
    { [kind |-> k, img |-> None] : k \in {"missing", "dir", "bad"} }
    \cup { [kind |-> "image", img |-> im] : im \in PipelineImages }

exists(p) == p.kind # "missing"

isfile(p) == p.kind \in {"bad", "image"}

imread(p) == IF p.kind = "image" THEN p.img ELSE None

\* ------------------------------------------------------------------------
\* State

VARIABLES
    entry,         \* "main", "stitch" (stitch_multiple_images called directly) or "pair"
    pc,            \* where the call stands
    paths,         \* args.images / image_paths
    threshold,     \* self.overlap_threshold, in percent
    result,        \* the running composite of stitch_multiple_images
    i,             \* index in paths of the next path of the loop
    calls,         \* number of calls of stitch_two_images so far
    raised,        \* the exception that left the entry point, or "none"
    failure,       \* the first thing that went wrong in main, or "none"
    exitCode,      \* what main returned, -1 before
    imageWritten,  \* the output image file exists
    textWritten,   \* the output text file exists
    img1,          \* the pair handed to find_overlap / stitch_two_images
    img2,
    overlap,       \* what find_overlap returned
    stitched,      \* what stitch_two_images returned
    text,          \* the lines of the text handed to extract_messages
    li,            \* number of lines extract_messages has gone through
    messages,      \* its list of messages
    current_message \* index in messages of current_message, 0 for None

vars == <<entry, pc, paths, threshold, result, i, calls, raised, failure,
          exitCode, imageWritten, textWritten, img1, img2, overlap, stitched,
          text, li, messages, current_message>>

chatVars == <<text, li, messages, current_message>>

pairVars == <<img1, img2, overlap, stitched>>

mainVars == <<failure, exitCode, imageWritten, textWritten>>

stitchVars == <<result, i, calls>>

Init ==
    /\ entry \in {"main", "stitch"}
    /\ pc = "start"
    /\ paths \in UNION { [1..n -> PathKinds] : n \in 0..MaxPaths }
    /\ entry = "main" => Len(paths) >= 1
    /\ threshold \in Thresholds
    /\ result = None
    /\ i = 0
    /\ calls = 0
    /\ raised = "none"
    /\ failure = "none"
    /\ exitCode = -1
    /\ imageWritten = FALSE
    /\ textWritten = FALSE
    /\ img1 = None
    /\ img2 = None
    /\ overlap = NoOffset
    /\ stitched = None
    /\ text = << >>
    /\ li = 0
    /\ messages = << >>
    /\ current_message = 0

\* ------------------------------------------------------------------------
\* main and validate_images

\* An exception raised under main's try is caught and main returns 1; one
\* raised in a direct call of stitch_multiple_images reaches the caller.
Raise(exc, what) ==
    /\ pc' = "done"
    /\ IF entry = "main"
       THEN /\ exitCode' = 1
            /\ failure' = what
            /\ raised' = "none"
       ELSE /\ raised' = exc
            /\ UNCHANGED <<exitCode, failure>>

validate_images ==
    /\ entry = "main"
    /\ pc = "start"
    /\ IF \E k \in 1..Len(paths) :
             /\ ~isfile(paths[k])
             /\ \A j \in 1..(k - 1) : isfile(paths[j])
       THEN LET k == CHOOSE k \in 1..Len(paths) :
                        /\ ~isfile(paths[k])
                        /\ \A j \in 1..(k - 1) : isfile(paths[j])
            IN  Raise(IF exists(paths[k]) THEN "ValueError" ELSE "FileNotFoundError",
                      "validation")
       ELSE /\ pc' = "stitch"
            /\ UNCHANGED <<raised, failure, exitCode>>
    /\ UNCHANGED <<entry, paths, threshold, imageWritten, textWritten>>
    /\ UNCHANGED stitchVars
    /\ UNCHANGED pairVars
    /\ UNCHANGED chatVars

\* ------------------------------------------------------------------------
\* ImageStitcher.stitch_multiple_images

\* A single-path branch that runs the image through the pairwise stitcher.
stitch_begin_single_stitched ==
    /\ \/ entry = "main" /\ pc = "stitch"
       \/ entry = "stitch" /\ pc = "start"
    /\ IF paths = << >>
       THEN Raise("ValueError", "stitch") /\ UNCHANGED stitchVars
       ELSE IF imread(paths[1]) = None
       THEN Raise("ValueError", "stitch") /\ UNCHANGED stitchVars
       ELSE IF Len(paths) = 1
       THEN /\ result' = stitch_two_images(imread(paths[1]), imread(paths[1]), threshold)
            /\ calls' = calls + 1
            /\ pc' = "stitched"
            /\ UNCHANGED <<i, raised, failure, exitCode>>
       ELSE /\ result' = imread(paths[1])
            /\ i' = 2
            /\ pc' = "loop"
            /\ UNCHANGED <<calls, raised, failure, exitCode>>
    /\ UNCHANGED <<entry, paths, threshold, imageWritten, textWritten>>
    /\ UNCHANGED pairVars
    /\ UNCHANGED chatVars

\* Up to the loop: the empty list, the single path, the first image.
stitch_begin ==
    /\ \/ entry = "main" /\ pc = "stitch"
       \/ entry = "stitch" /\ pc = "start"
    /\ IF paths = << >>
       THEN Raise("ValueError", "stitch") /\ UNCHANGED stitchVars
       ELSE IF imread(paths[1]) = None
       THEN Raise("ValueError", "stitch") /\ UNCHANGED stitchVars
       ELSE IF Len(paths) = 1
       THEN /\ result' = imread(paths[1])
            /\ pc' = "stitched"
            /\ UNCHANGED <<i, calls, raised, failure, exitCode>>
       ELSE /\ result' = imread(paths[1])
            /\ i' = 2
            /\ pc' = "loop"
            /\ UNCHANGED <<calls, raised, failure, exitCode>>
    /\ UNCHANGED <<entry, paths, threshold, imageWritten, textWritten>>
    /\ UNCHANGED pairVars
    /\ UNCHANGED chatVars

\* A loop body that gives up on a path that does not decode.
loop_body_abort(res, img_path, th) ==
    LET img == imread(img_path)
    IN  IF img = None
        THEN [result |-> StackError, called |-> FALSE]
        ELSE [result |-> stitch_two_images(res, img, th), called |-> TRUE]

\* A loop body that restarts the composite from each decoded image.
loop_body_restart(res, img_path, th) ==
    LET img == imread(img_path)
    IN  IF img = None
        THEN [result |-> res, called |-> FALSE]
        ELSE [result |-> img, called |-> TRUE]

\* The body of the loop over image_paths[1:] for one path: the composite
\* after it and whether stitch_two_images was called.
loop_body(res, img_path, th) ==
    LET img == imread(img_path)
    IN  IF img = None
        THEN [result |-> res, called |-> FALSE]
        ELSE [result |-> stitch_two_images(res, img, th), called |-> TRUE]

\* A loop that saves the composite to the output file after every stitch.
stitch_next_saving ==
    /\ pc = "loop"
    /\ i <= Len(paths)
    /\ LET b == loop_body(result, paths[i], threshold)
       IN  IF b.result = StackError
           THEN Raise("ValueError", "stitch") /\ UNCHANGED <<stitchVars, imageWritten>>
           ELSE /\ result' = b.result
                /\ i' = i + 1
                /\ calls' = IF b.called THEN calls + 1 ELSE calls
                /\ imageWritten' = (imageWritten \/ (entry = "main" /\ b.called))
                /\ UNCHANGED <<pc, raised, failure, exitCode>>
    /\ UNCHANGED <<entry, paths, threshold, textWritten>>
    /\ UNCHANGED pairVars
    /\ UNCHANGED chatVars

stitch_next ==
    /\ pc = "loop"
    /\ i <= Len(paths)
    /\ LET b == loop_body(result, paths[i], threshold)
       IN  IF b.result = StackError
           THEN Raise("ValueError", "stitch") /\ UNCHANGED stitchVars
           ELSE /\ result' = b.result
                /\ i' = i + 1
                /\ calls' = IF b.called THEN calls + 1 ELSE calls
                /\ UNCHANGED <<pc, raised, failure, exitCode>>
    /\ UNCHANGED <<entry, paths, threshold, imageWritten, textWritten>>
    /\ UNCHANGED pairVars
    /\ UNCHANGED chatVars

stitch_return ==
    /\ pc = "loop"
    /\ i > Len(paths)
    /\ pc' = "stitched"
    /\ UNCHANGED <<entry, paths, threshold, raised>>
    /\ UNCHANGED stitchVars
    /\ UNCHANGED mainVars
    /\ UNCHANGED pairVars
    /\ UNCHANGED chatVars

\* The direct call is over when stitch_multiple_images has returned.
stitch_done ==
    /\ entry = "stitch"
    /\ pc = "stitched"
    /\ pc' = "done"
    /\ UNCHANGED <<entry, paths, threshold, raised>>
    /\ UNCHANGED stitchVars
    /\ UNCHANGED mainVars
    /\ UNCHANGED pairVars
    /\ UNCHANGED chatVars

\* ------------------------------------------------------------------------
\* main after the stitch

\* ImageStitcher.save_image unless --text-only.  cv2.imwrite writes the
\* file, or returns False having written nothing (its result is dropped),
\* or raises.
save_image ==
    /\ entry = "main"
    /\ pc = "stitched"
    /\ \E text_only \in BOOLEAN, written \in {"ok", "false", "raise"} :
          IF text_only
          THEN /\ pc' = "ocr"
               /\ UNCHANGED <<raised, failure, exitCode, imageWritten>>
          ELSE IF written = "raise"
          THEN Raise("cv2.error", "image_write") /\ UNCHANGED imageWritten
          ELSE /\ pc' = "ocr"
               /\ imageWritten' = (written = "ok")
               /\ failure' = IF written = "false" THEN "image_write" ELSE failure
               /\ UNCHANGED <<raised, exitCode>>
    /\ UNCHANGED <<entry, paths, threshold, textWritten>>
    /\ UNCHANGED stitchVars
    /\ UNCHANGED pairVars
    /\ UNCHANGED chatVars

\* OCRExtractor.extract_text and the check of its text.
extract_text ==
    /\ entry = "main"
    /\ pc = "ocr"
    /\ \E ocr \in {"text", "empty", "raise"} :
          IF ocr = "raise"
          THEN Raise("TesseractError", "ocr")
          ELSE IF ocr = "empty"
          THEN /\ pc' = "done"
               /\ exitCode' = 1
               /\ failure' = IF failure = "none" THEN "no_text" ELSE failure
               /\ UNCHANGED raised
          ELSE /\ pc' = "text"
               /\ UNCHANGED <<raised, failure, exitCode>>
    /\ UNCHANGED <<entry, paths, threshold, imageWritten, textWritten>>
    /\ UNCHANGED stitchVars
    /\ UNCHANGED pairVars
    /\ UNCHANGED chatVars

\* Chat processing, OCRExtractor.save_text, the summary and return 0.
save_text ==
    /\ entry = "main"
    /\ pc = "text"
    /\ \E opened \in BOOLEAN :
          IF opened
          THEN /\ textWritten' = TRUE
               /\ pc' = "done"
               /\ exitCode' = 0
               /\ UNCHANGED <<raised, failure>>
          ELSE Raise("OSError", "text_write") /\ UNCHANGED textWritten
    /\ UNCHANGED <<entry, paths, threshold, imageWritten>>
    /\ UNCHANGED stitchVars
    /\ UNCHANGED pairVars
    /\ UNCHANGED chatVars

Next ==
    \/ validate_images
    \/ stitch_begin
    \/ stitch_next
    \/ stitch_return
    \/ stitch_done
    \/ save_image
    \/ extract_text
    \/ save_text

Spec == Init /\ [][Next]_vars

\* ------------------------------------------------------------------------
\* find_overlap and stitch_two_images called on a pair of images

InitPair ==
    /\ entry = "pair"
    /\ pc = "start"
    /\ paths = << >>
    /\ threshold \in Thresholds
    /\ result = None
    /\ i = 0
    /\ calls = 0
    /\ raised = "none"
    /\ failure = "none"
    /\ exitCode = -1
    /\ imageWritten = FALSE
    /\ textWritten = FALSE
    /\ img1 \in PairImages
    /\ img2 \in PairImages
    /\ overlap = NoOffset
    /\ stitched = None
    /\ text = << >>
    /\ li = 0
    /\ messages = << >>
    /\ current_message = 0

call_find_overlap ==
    /\ entry = "pair"
    /\ pc = "start"
    /\ \E search_region \in SearchRegions :
          overlap' = find_overlap(img1, img2, search_region, threshold)
    /\ pc' = "located"
    /\ UNCHANGED <<entry, paths, threshold, raised, img1, img2, stitched>>
    /\ UNCHANGED stitchVars
    /\ UNCHANGED mainVars
    /\ UNCHANGED chatVars

call_stitch_two_images ==
    /\ entry = "pair"
    /\ pc = "located"
    /\ stitched' = stitch_two_images(img1, img2, threshold)
    /\ calls' = calls + 1
    /\ pc' = "done"
    /\ UNCHANGED <<entry, paths, threshold, raised, img1, img2, overlap, result, i>>
    /\ UNCHANGED mainVars
    /\ UNCHANGED chatVars

NextPair ==
    \/ call_find_overlap
    \/ call_stitch_two_images

SpecPair == InitPair /\ [][NextPair]_vars

\* ------------------------------------------------------------------------
\* ChatDetector.extract_messages
\*
\* A line is a sequence of characters and a text the sequence of its lines
\* (text.split of the newline).

MaxLines == 3

SpeakerLimit == 30

Uppers == {"A", "B", "M", "P"}

Lowers == {"a", "b", "e", "h", "i", "k", "l", "o", "y"}

Digits == {"0", "1", "3"}

Spaces == {" "}

\* [a-zA-Z\s]
AlphaSpace == Uppers \cup Lowers \cup Spaces

\* [0-9:APM\s]
TimeChars == Digits \cup {":", "A", "P", "M"} \cup Spaces

Openers == {"[", "("}

Closers == {"]", ")"}

ChatLines ==
    { <<"A", "l", ":", " ", "h", "i">>,
      <<"[", "1", ":", "3", "0", "]", " ", "A", "l", ":", " ", "h", "i">>,
      <<"A", "l", " ", "[", "1", ":", "3", "0", "]", ":", " ", "h", "i">>,
      <<"1", ":", "3", "0", " ", "P", "M", " ", "B", "o", ":", " ", "o", "k">>,
      <<" ", "o", "k", " ", "b", "y", "e", " ">>,
      <<"h", "i", ":", " ", "a", "l", "l">>,
      <<"A", "l", ":">>,
      <<"A", "l", " ", "(", "1", ":", "3", "0", ")", " ", "h", "i">>,
      <<"A", "b", "b", "b", "b", "b", "b", "b", "b", "b", "b", "b", "b", "b", "b", "b", "b", "b", "b", "b", "b", "b", "b", "b", "b", "b", "b", "b", "b", "b", ":", " ", "h", "i">>,
      <<>> }

AllIn(l, a, b, S) == \A k \in a..b : l[k] \in S

MaxOf(S) == CHOOSE x \in S : \A y \in S : y <= x

MinOf(S) == CHOOSE x \in S : \A y \in S : x <= y

\* str.strip()
strip(l) ==
    LET ink == { k \in 1..Len(l) : l[k] \notin Spaces }
    IN  IF ink = {} THEN << >> ELSE SubSeq(l, MinOf(ink), MaxOf(ink))

NoMatch == [ok |-> FALSE, speaker |-> << >>, message |-> << >>, timestamp |-> << >>]

NoTimestamp == <<"None">>

\* \s*:\s*(.+)$ from position p on: the colon's position b with only
\* whitespace in p..b-1 and at least one character after it, or 0.
ColonAt(l, p) ==
    LET bs == { b \in p..(Len(l) - 1) : l[b] = ":" /\ AllIn(l, p, b - 1, Spaces) }
    IN  IF bs = {} THEN 0 ELSE MinOf(bs)

\* (.+) after the colon at b and the longest run of whitespace
MessageAfter(l, b) ==
    LET cs == { c \in (b + 1)..Len(l) : AllIn(l, b + 1, c - 1, Spaces) }
    IN  SubSeq(l, MaxOf(cs), Len(l))

\* ([A-Z][a-zA-Z\s]{0,30}) from position st on: the ends of the group
NameEnds(l, st) ==
    { a \in st..Min(st + SpeakerLimit, Len(l)) :
        l[st] \in Uppers /\ AllIn(l, st + 1, a, AlphaSpace) }

\* ([A-Z][a-zA-Z\s]{0,30})\s*:\s*(.+)$ from position st on, the group as
\* long as the rest allows
NameColonMessage(l, st) ==
    LET ends == { a \in NameEnds(l, st) : ColonAt(l, a + 1) # 0 }
    IN  IF ends = {} THEN NoMatch
        ELSE [ok |-> TRUE,
              speaker |-> SubSeq(l, st, MaxOf(ends)),
              message |-> MessageAfter(l, ColonAt(l, MaxOf(ends) + 1)),
              timestamp |-> NoTimestamp]

\* patterns[0] and the check of the speaker's length
Pattern0(l) ==
    LET m == NameColonMessage(l, 1)
    IN  IF m.ok /\ Len(m.speaker) > 0 /\ Len(m.speaker) < SpeakerLimit
        THEN m ELSE NoMatch

\* [\[\(]([0-9:APM\s]+)[\]\)] from position o on: the closer's position, or 0
TimeClose(l, o) ==
    LET qs == { q \in (o + 2)..Len(l) :
                  /\ l[o] \in Openers
                  /\ AllIn(l, o + 1, q - 1, TimeChars)
                  /\ l[q] \in Closers }
    IN  IF qs = {} THEN 0 ELSE MaxOf(qs)

\* patterns[1]: "[Time] Name: message"
Pattern1(l) ==
    LET q   == IF Len(l) >= 1 THEN TimeClose(l, 1) ELSE 0
        sts == { st \in (q + 1)..Len(l) :
                   AllIn(l, q + 1, st - 1, Spaces) /\ NameColonMessage(l, st).ok }
    IN  IF q = 0 \/ sts = {} THEN NoMatch
        ELSE [NameColonMessage(l, MaxOf(sts)) EXCEPT
                 !.timestamp = strip(SubSeq(l, 2, q - 1))]

\* patterns[2]: "Name [Time]: message"
Pattern2(l) ==
    LET fits == { a \in NameEnds(l, 1) :
                    \E o \in (a + 1)..Len(l) :
                        /\ AllIn(l, a + 1, o - 1, Spaces)
                        /\ l[o] \in Openers
                        /\ TimeClose(l, o) # 0
                        /\ ColonAt(l, TimeClose(l, o) + 1) # 0 }
    IN  IF Len(l) = 0 \/ fits = {} THEN NoMatch
        ELSE LET a == MaxOf(fits)
                 o == MinOf({ k \in (a + 1)..Len(l) : l[k] \in Openers })
                 q == TimeClose(l, o)
             IN  [ok |-> TRUE,
                  speaker |-> SubSeq(l, 1, a),
                  message |-> MessageAfter(l, ColonAt(l, q + 1)),
                  timestamp |-> strip(SubSeq(l, o + 1, q - 1))]

\* ([0-9]{1,2}:[0-9]{2}\s*(?:AM|PM)?): the ends of the time group, with
\* the whitespace before AM or PM taken in
TimeEnds(l) ==
    { e \in 1..Len(l) :
        \E nd \in {1, 2} :
            /\ nd + 3 <= e
            /\ AllIn(l, 1, nd, Digits)
            /\ l[nd + 1] = ":"
            /\ AllIn(l, nd + 2, nd + 3, Digits)
            /\ \/ AllIn(l, nd + 4, e, Spaces)
               \/ /\ e >= nd + 5
                  /\ AllIn(l, nd + 4, e - 2, Spaces)
                  /\ l[e - 1] \in {"A", "P"}
                  /\ l[e] = "M" }

\* patterns[5]: "HH:MM Name: message"
Pattern5(l) ==
    LET fits == { e \in TimeEnds(l) :
                    \E st \in (e + 2)..Len(l) :
                        AllIn(l, e + 1, st - 1, Spaces) /\ NameColonMessage(l, st).ok }
    IN  IF fits = {} THEN NoMatch
        ELSE LET e  == MaxOf(fits)
                 st == MaxOf({ k \in (e + 2)..Len(l) :
                                 AllIn(l, e + 1, k - 1, Spaces)
                                 /\ NameColonMessage(l, k).ok })
             IN  [NameColonMessage(l, st) EXCEPT !.timestamp = strip(SubSeq(l, 1, e))]

\* The patterns in the order extract_messages tries them: the first match.
FirstMatch(l) ==
    IF Pattern0(l).ok THEN Pattern0(l)
    ELSE IF Pattern1(l).ok THEN Pattern1(l)
    ELSE IF Pattern2(l).ok THEN Pattern2(l)
    ELSE Pattern5(l)

\* re.match(r'^[A-Z][a-zA-Z\s]*:', line)
StartsLikeSpeaker(l) ==
    /\ Len(l) >= 2
    /\ l[1] \in Uppers
    /\ \E b \in 2..Len(l) : l[b] = ":" /\ AllIn(l, 2, b - 1, AlphaSpace)

ChatMessage(m, line_no) ==
    [speaker |-> strip(m.speaker), message |-> strip(m.message),
     timestamp |-> m.timestamp, line_number |-> line_no]

\* A loop body that appends every unmatched line to the current message.
extract_line_append_all(msgs, cur, raw, line_no) ==
    LET line == strip(raw)
    IN  IF line = << >> THEN [messages |-> msgs, current_message |-> cur]
        ELSE IF FirstMatch(line).ok
        THEN [messages |-> Append(msgs, ChatMessage(FirstMatch(line), line_no)),
              current_message |-> Len(msgs) + 1]
        ELSE IF cur # 0
        THEN [messages |-> [msgs EXCEPT ![cur].message = @ \o <<"\n">> \o line],
              current_message |-> cur]
        ELSE [messages |-> msgs, current_message |-> cur]

\* The loop body for the line with index line_no (from 0): the list of messages
\* and current_message after it.
extract_line(msgs, cur, raw, line_no) ==
    LET line == strip(raw)
    IN  IF line = << >> THEN [messages |-> msgs, current_message |-> cur]
        ELSE IF FirstMatch(line).ok
        THEN [messages |-> Append(msgs, ChatMessage(FirstMatch(line), line_no)),
              current_message |-> Len(msgs) + 1]
        ELSE IF cur # 0 /\ ~StartsLikeSpeaker(line)
        THEN [messages |-> [msgs EXCEPT ![cur].message = @ \o <<"\n">> \o line],
              current_message |-> cur]
        ELSE [messages |-> msgs, current_message |-> cur]

InitChat ==
    /\ entry = "chat"
    /\ pc = "start"
    /\ paths = << >>
    /\ threshold = 0
    /\ result = None
    /\ i = 0
    /\ calls = 0
    /\ raised = "none"
    /\ failure = "none"
    /\ exitCode = -1
    /\ imageWritten = FALSE
    /\ textWritten = FALSE
    /\ img1 = None
    /\ img2 = None
    /\ overlap = NoOffset
    /\ stitched = None
    /\ text \in UNION { [1..n -> ChatLines] : n \in 0..MaxLines }
    /\ li = 0
    /\ messages = << >>
    /\ current_message = 0

\* One pass of the loop over the lines.
extract_next ==
    /\ entry = "chat"
    /\ pc = "start"
    /\ li < Len(text)
    /\ LET r == extract_line(messages, current_message, text[li + 1], li)
       IN  /\ messages' = r.messages
           /\ current_message' = r.current_message
    /\ li' = li + 1
    /\ UNCHANGED <<entry, pc, paths, threshold, raised, text>>
    /\ UNCHANGED stitchVars
    /\ UNCHANGED mainVars
    /\ UNCHANGED pairVars

extract_return ==
    /\ entry = "chat"
    /\ pc = "start"
    /\ li = Len(text)
    /\ pc' = "done"
    /\ UNCHANGED <<entry, paths, threshold, raised>>
    /\ UNCHANGED stitchVars
    /\ UNCHANGED mainVars
    /\ UNCHANGED pairVars
    /\ UNCHANGED chatVars

NextChat ==
    \/ extract_next
    \/ extract_return

SpecChat == InitChat /\ [][NextChat]_vars

\* ------------------------------------------------------------------------
\* Properties of find_overlap and stitch_two_images (SpecPair)

CandidateSet(a, b) == { Candidates(a, b)[k] : k \in 1..Len(Candidates(a, b)) }

\* Rows [H-k, H) of the upper image equal rows [0, k) of the lower one.
SharedRows(a, b, k) ==
    /\ k <= height(a)
    /\ k <= height(b)
    /\ SubSeq(a.rows, height(a) - k + 1, height(a)) = SubSeq(b.rows, 1, k)

SharedSizes(a, b) ==
    { k \in Max(1, min_overlap(a, b))..max_overlap(a, b) : SharedRows(a, b, k) }

\* C1: stitch_two_images returns an image (no error) whose width is the
\* larger of the two widths and whose height is offset + height(lower) when
\* find_overlap returned an offset and height(upper) + height(lower) when it
\* returned None.
C1_StitchDimensions ==
    (entry = "pair" /\ pc = "done") =>
        /\ stitched # StackError
        /\ width(stitched) = Max(width(img1), width(img2))
        /\ height(stitched) = IF overlap = NoOffset
                              THEN height(img1) + height(img2)
                              ELSE overlap + height(img2)

C1_Witness ==
    /\ entry = "pair"
    /\ pc = "done"
    /\ overlap # NoOffset
    /\ width(img1) < width(img2)
    /\ height(stitched) < height(img1) + height(img2)

\* C2 (as claimed): whenever the bottom k rows of the first image equal the
\* top k rows of the second for some k in [minOverlap, maxOverlap],
\* find_overlap returns the offset H - k of such a k.
C2_OverlapCorrectness ==
    (entry = "pair" /\ pc = "located" /\ SharedSizes(img1, img2) # {}) =>
        \E k \in SharedSizes(img1, img2) : overlap = height(img1) - k

\* C7: a pair that is NotFound under the threshold stays NotFound under
\* every larger threshold, and every threshold strictly above the score of
\* each evaluated candidate gives NotFound.
C7_ThresholdMonotonic ==
    (entry = "pair" /\ pc = "located") =>
        \A t \in Thresholds :
            /\ (overlap = NoOffset /\ t >= threshold) =>
                  find_overlap(img1, img2, DefaultSearchRegion, t) = NoOffset
            /\ (\A s \in CandidateSet(img1, img2) :
                    ~GeqPct(CandidateScore(img1, img2, s), t)) =>
                  find_overlap(img1, img2, DefaultSearchRegion, t) = NoOffset

\* A pair found under the threshold and lost under a larger one, which lies
\* above the score of every candidate.
C7_Witness ==
    /\ entry = "pair"
    /\ pc = "located"
    /\ overlap # NoOffset
    /\ \E t \in Thresholds :
          /\ t > threshold
          /\ \A s \in CandidateSet(img1, img2) :
                ~GeqPct(CandidateScore(img1, img2, s), t)
          /\ find_overlap(img1, img2, DefaultSearchRegion, t) = NoOffset

\* C8: when minOverlap >= maxOverlap no candidate is evaluated, find_overlap
\* returns None and stitch_two_images returns the full concatenation.
C8_Degenerate ==
    (entry = "pair" /\ min_overlap(img1, img2) >= max_overlap(img1, img2)) =>
        /\ Candidates(img1, img2) = << >>
        /\ pc \in {"located", "done"} => overlap = NoOffset
        /\ pc = "done" =>
              /\ stitched # StackError
              /\ stitched.rows = img1.rows \o img2.rows

C8_Witness ==
    /\ entry = "pair"
    /\ pc = "done"
    /\ min_overlap(img1, img2) >= max_overlap(img1, img2)
    /\ height(img1) > 1
    /\ width(img1) # width(img2)
    /\ overlap = NoOffset

\* C10 (as claimed): find_overlap returns an offset if and only if some
\* evaluated candidate has a score >= the threshold.
C10_FoundIffAboveThreshold ==
    (entry = "pair" /\ pc = "located") =>
        (overlap # NoOffset <=>
            \E s \in CandidateSet(img1, img2) :
                /\ CandidateScore(img1, img2, s) # NoScore
                /\ GeqPct(CandidateScore(img1, img2, s), threshold))

\* The candidates that reach the threshold and could be accepted.
Accepted(a, b, t) ==
    { s \in CandidateSet(a, b) :
        /\ CandidateScore(a, b, s) # NoScore
        /\ GeqPct(CandidateScore(a, b, s), t) }

\* The accepted candidates whose score no accepted candidate exceeds.
BestAccepted(a, b, t) ==
    { s \in Accepted(a, b, t) :
        \A u \in Accepted(a, b, t) :
            ~Gt(CandidateScore(a, b, u), CandidateScore(a, b, s)) }

\* C11: when find_overlap returns an offset, it is height(upper) - s for the
\* largest (first swept) candidate s whose score equals the highest score
\* of the accepted candidates; a later equal score does not replace it.
C11_TieBreak ==
    (entry = "pair" /\ pc = "located" /\ overlap # NoOffset) =>
        /\ BestAccepted(img1, img2, threshold) # {}
        /\ \E s \in BestAccepted(img1, img2, threshold) :
              /\ overlap = height(img1) - s
              /\ \A u \in BestAccepted(img1, img2, threshold) : u <= s

\* Two accepted candidates tie for the highest score and the first wins.
C11_Witness ==
    /\ entry = "pair"
    /\ pc = "located"
    /\ overlap # NoOffset
    /\ Cardinality(BestAccepted(img1, img2, threshold)) >= 2
    /\ \E s \in BestAccepted(img1, img2, threshold) :
          /\ overlap = height(img1) - s
          /\ ~Gt(One, CandidateScore(img1, img2, s))

\* The sizes s = maxOverlap - 10*i with minOverlap <= s <= maxOverlap.
ExpectedCandidates(a, b) ==
    { s \in min_overlap(a, b)..max_overlap(a, b) :
        (max_overlap(a, b) - s) % SweepStep = 0 }

\* C12 (as claimed): for minOverlap < maxOverlap the sweep evaluates exactly
\* the sizes maxOverlap - 10*i that are >= minOverlap, in decreasing order,
\* so minOverlap itself when maxOverlap - minOverlap is a multiple of 10.
C12_SweepCandidates ==
    (entry = "pair" /\ pc = "located"
        /\ min_overlap(img1, img2) < max_overlap(img1, img2)) =>
        /\ CandidateSet(img1, img2) = ExpectedCandidates(img1, img2)
        /\ \A k \in 1..(Len(Candidates(img1, img2)) - 1) :
              Candidates(img1, img2)[k] > Candidates(img1, img2)[k + 1]

\* C13: an offset that find_overlap returns lies in 0..height(upper), and
\* stitch_two_images starts its result with that many rows of the upper image.
C13_OffsetRange ==
    (entry = "pair" /\ pc \in {"located", "done"} /\ overlap # NoOffset) =>
        /\ 0 <= overlap
        /\ overlap <= height(img1)
        /\ pc = "done" =>
              /\ stitched # StackError
              /\ height(stitched) >= overlap
              /\ SubSeq(stitched.rows, 1, overlap) = SubSeq(img1.rows, 1, overlap)

\* The upper image is the higher one and an overlap was found.
C13_Witness ==
    /\ entry = "pair"
    /\ pc = "done"
    /\ overlap # NoOffset
    /\ height(img1) < height(img2)
    /\ overlap > 0
    /\ overlap < height(img1)

C17_OffsetThresholdFree ==
    (entry = "pair" /\ pc = "located" /\ overlap # NoOffset) =>
        \A t \in Thresholds :
            find_overlap(img1, img2, DefaultSearchRegion, t) \in {NoOffset, overlap}

\* Found under two thresholds that accept different sets of candidates.
C17_Witness ==
    /\ entry = "pair"
    /\ pc = "located"
    /\ overlap # NoOffset
    /\ \E t \in Thresholds :
          /\ t > threshold
          /\ find_overlap(img1, img2, DefaultSearchRegion, t) = overlap
          /\ Accepted(img1, img2, t) # Accepted(img1, img2, threshold)

\* ------------------------------------------------------------------------
\* Properties of stitch_multiple_images and main (Spec)

\* stitch_multiple_images has returned its composite.
Returned ==
    \/ pc = "stitched"
    \/ entry = "stitch" /\ pc = "done" /\ raised = "none"
    \/ entry = "main" /\ pc \in {"ocr", "text"}
    \/ entry = "main" /\ pc = "done" /\ failure \notin {"validation", "stitch"}

\* stitch_multiple_images has raised.
StitchFailed == raised # "none" \/ failure = "stitch"

\* stitch_multiple_images has been called and is past its first image.
StitchEntered ==
    \/ entry = "stitch" /\ pc # "start"
    \/ entry = "main" /\ pc \notin {"start", "stitch"} /\ failure # "validation"

ReadableIdx == { k \in 1..Len(paths) : imread(paths[k]) # None }

\* The images that decode, in the order of their paths.
ReadableImages ==
    LET sel == SelectSeq(paths, LAMBDA q : imread(q) # None)
    IN  [k \in 1..Len(sel) |-> imread(sel[k])]

RECURSIVE FoldStitch(_, _, _)
FoldStitch(acc, imgs, th) ==
    IF imgs = << >> THEN acc
    ELSE FoldStitch(stitch_two_images(acc, Head(imgs), th), Tail(imgs), th)

RECURSIVE SumHeights(_)
SumHeights(imgs) ==
    IF imgs = << >> THEN 0 ELSE height(Head(imgs)) + SumHeights(Tail(imgs))

\* C3: for at least two paths of which the first decodes,
\* stitch_multiple_images does not raise and returns the left fold of
\* stitch_two_images over the images that decode, in their order.
C3_SkipOnFailure ==
    (Len(paths) >= 2 /\ imread(paths[1]) # None) =>
        /\ ~StitchFailed
        /\ Returned =>
              result = FoldStitch(Head(ReadableImages), Tail(ReadableImages), threshold)

\* Three paths, the second of which does not decode: the result is the
\* stitch of the first and the third, which overlap.
C3_Witness ==
    /\ Returned
    /\ Len(paths) = 3
    /\ imread(paths[1]) # None
    /\ imread(paths[2]) = None
    /\ imread(paths[3]) # None
    /\ result = stitch_two_images(imread(paths[1]), imread(paths[3]), threshold)
    /\ height(result) < height(imread(paths[1])) + height(imread(paths[3]))

\* C4: when every path decodes, the composite is at least as high as the
\* highest input and at most as high as all inputs together.
C4_HeightBounds ==
    (Returned /\ Len(paths) >= 1 /\ ReadableIdx = 1..Len(paths)) =>
        /\ \A k \in 1..Len(paths) : height(result) >= height(imread(paths[k]))
        /\ height(result) <= SumHeights(ReadableImages)

C4_Witness ==
    /\ Returned
    /\ Len(paths) = 3
    /\ ReadableIdx = 1..3
    /\ height(result) < SumHeights(ReadableImages)
    /\ \A k \in 1..3 : height(result) > height(imread(paths[k]))

\* C5: with exactly one path that decodes, stitch_multiple_images returns
\* that image as loaded and calls neither stitch_two_images nor find_overlap.
C5_SinglePassthrough ==
    (Returned /\ Cardinality(ReadableIdx) = 1) =>
        /\ result = paths[1].img
        /\ calls = 0

C5_Witness ==
    /\ Returned
    /\ Len(paths) = 1
    /\ result = paths[1].img
    /\ height(result) > 1

\* C6: stitch_multiple_images raises exactly when the list is empty or its
\* first path does not decode; later paths that do not decode are skipped.
C6_FailsIffNoFirstImage ==
    /\ StitchFailed => (paths = << >> \/ imread(paths[1]) = None)
    /\ (StitchEntered /\ (paths = << >> \/ imread(paths[1]) = None)) => StitchFailed

\* The first path decodes, every later one fails, and the call returned.
C6_Witness ==
    /\ entry = "stitch"
    /\ pc = "done"
    /\ raised = "none"
    /\ Len(paths) = MaxPaths
    /\ ReadableIdx = {1}

\* C9 (as claimed): main returns 0 exactly when nothing went wrong, 1
\* otherwise, and no exception leaves it.
C9_ExitCode ==
    (entry = "main" /\ pc = "done") =>
        /\ raised = "none"
        /\ exitCode \in {0, 1}
        /\ exitCode = 0 <=> failure = "none"

\* C14: main writes the output image only after stitch_multiple_images has
\* returned the composite of the whole list; a failed validation leaves the
\* stitcher untouched; and when validation or stitching failed, main returns
\* 1 with neither output file written.
C14_OutputAfterStitch ==
    entry = "main" =>
        /\ (imageWritten \/ textWritten) =>
              /\ pc \in {"ocr", "text", "done"}
              /\ result # None
              /\ Len(paths) = 1 \/ i = Len(paths) + 1
              /\ failure \notin {"validation", "stitch"}
        /\ failure = "validation" =>
              /\ result = None
              /\ i = 0
              /\ calls = 0
        /\ (pc = "done" /\ failure \in {"validation", "stitch"}) =>
              /\ exitCode = 1
              /\ ~imageWritten
              /\ ~textWritten

\* The image was written after a stitch of several paths.
C14_Witness ==
    /\ entry = "main"
    /\ pc = "done"
    /\ imageWritten
    /\ Len(paths) >= 2
    /\ calls >= 1
    /\ i = Len(paths) + 1

\* ------------------------------------------------------------------------
\* Properties of extract_messages (SpecChat)

\* The line starts a message.
Matches(raw) == FirstMatch(strip(raw)).ok

\* What the lines k..upTo add to the body of the message before them, up
\* to the next line that starts a message: every non-empty line when
\* keepAll, else those that do not start like a speaker.
RECURSIVE Continuation(_, _, _)
Continuation(k, upTo, keepAll) ==
    IF k > upTo \/ Matches(text[k]) THEN << >>
    ELSE (IF strip(text[k]) = << >> \/ (~keepAll /\ StartsLikeSpeaker(strip(text[k])))
          THEN << >>
          ELSE <<"\n">> \o strip(text[k]))
         \o Continuation(k + 1, upTo, keepAll)

\* Every message comes from a line that starts one, and its body is that
\* line's message followed by the continuation lines gone through so far.
BodiesAre(keepAll) ==
    \A m \in 1..Len(messages) :
        LET j == messages[m].line_number + 1
        IN  /\ j \in 1..li
            /\ Matches(text[j])
            /\ messages[m].message =
                  strip(FirstMatch(strip(text[j])).message)
                  \o Continuation(j + 1, li, keepAll)

\* C15 (as claimed): every non-empty line that starts no message while a
\* message is open is appended to the body of the most recent message.
C15_NoLineDropped == entry = "chat" => BodiesAre(TRUE)

\* C15 (amended): every non-empty line that starts no message while a
\* message is open is appended to the body of the most recent message,
\* unless it starts with a capital letter followed by letters or whitespace
\* up to a colon; such a line is dropped.
C15_Continuation ==
    entry = "chat" =>
        /\ BodiesAre(FALSE)
        /\ Len(messages) = Cardinality({ k \in 1..li : Matches(text[k]) })
        /\ current_message = Len(messages)

\* A message, then a line that starts like a speaker and is dropped, then a
\* line that is appended.
C15_Witness ==
    /\ entry = "chat"
    /\ pc = "done"
    /\ Len(text) = 3
    /\ Len(messages) = 1
    /\ Matches(text[1])
    /\ ~Matches(text[2])
    /\ StartsLikeSpeaker(strip(text[2]))
    /\ ~Matches(text[3])
    /\ strip(text[3]) # << >>
    /\ messages[1].message =
          strip(FirstMatch(strip(text[1])).message) \o <<"\n">> \o strip(text[3])

=============================================================================
